---- MODULE Spec2Model ----
(***************************************************************************)
(* A model of pstore's PersistentStorage: an in-memory map of string keys  *)
(* to values, mirrored key by key to files <name>_<key>.pcache in one      *)
(* directory.                                                              *)
(*                                                                         *)
(* Strings that take part in file names (cache name, keys, file names) are *)
(* sequences of one-character strings, so that concatenation, prefix and   *)
(* suffix tests are computed as the code computes them.  Keys are file     *)
(* name safe (no path separator).                                          *)
(*                                                                         *)
(* Spec   : one caller, ThreadSafe left at its constructor value (false);  *)
(*          every action is one whole call of a public method.             *)
(* SpecTS : ThreadSafe = true and several goroutines; every call is split  *)
(*          at the points where the goroutine can block or be interleaved. *)
(***************************************************************************)
EXTENDS Integers, Sequences, FiniteSets, TLC

VARIABLES
    cache,            \* ps.cache: map[string]any, a function on the keys held
    disk,             \* regular files of directory ps.path: file name -> bytes
    dirExists,        \* whether directory ps.path exists
    MaxMemItems,      \* ps.MaxMemItems
    ThreadSafe,       \* ps.ThreadSafe
    SaveToDiskOnSet,  \* ps.SaveToDiskOnSet
    inMemory,         \* ps.inMemory
    name,             \* ps.name
    mutex,            \* ps.mutex: 0 when unlocked, else the goroutine that locked it
    pc,               \* per goroutine: "idle", "start", "body" or "exit"
    cur,              \* per goroutine: the call in progress
    crashed,          \* the runtime has aborted the process (fatal error)
    last,             \* history: the most recent completed call and its results
    lastSet,          \* history: key -> value of its latest successful Set
    clean             \* history: only successful Set/Get/Delete so far, all persisted

vars == <<cache, disk, dirExists, MaxMemItems, ThreadSafe, SaveToDiskOnSet,
          inMemory, name, mutex, pc, cur, crashed, last, lastSet, clean>>

cfgVars == <<MaxMemItems, ThreadSafe, SaveToDiskOnSet, inMemory, name>>
thrVars == <<mutex, pc, cur, crashed>>

-----------------------------------------------------------------------------
(* Bounds of the model *)

MaxLimit == 1        \* finite MaxMemItems values 0 .. MaxLimit
MaxPtrDepth == 2     \* a value is given to Set as it is or behind so many pointers
NumThreads == 2      \* goroutines of SpecTS

(* Program constants *)

MEM_ITEMS_UNLIMITED == 0 - 1
MEM_ITEMS_DEFAULT == 100

cache_ext == <<".", "p", "c", "a", "c", "h", "e">>

-----------------------------------------------------------------------------
(* Strings *)

\* the keys the callers use
Keys == { <<"k", "1">>, <<"k", "2">> }

CacheName == <<"n">>

HasPrefix(s, p) == Len(s) >= Len(p) /\ SubSeq(s, 1, Len(p)) = p
HasSuffix(s, p) == Len(s) >= Len(p) /\ SubSeq(s, Len(s) - Len(p) + 1, Len(s)) = p
TrimPrefix(s, p) == IF HasPrefix(s, p) THEN SubSeq(s, Len(p) + 1, Len(s)) ELSE s
TrimSuffix(s, p) == IF HasSuffix(s, p) THEN SubSeq(s, 1, Len(s) - Len(p)) ELSE s

\* the file name an instance named nm gives to key
CacheFilenameOf(nm, key) == nm \o <<"_">> \o key \o cache_ext

getCacheFilename(key) == CacheFilenameOf(name, key)

-----------------------------------------------------------------------------
(* Values and their encoding *)

Types == {"string", "int"}

Value(t, v) == [t |-> t, v |-> v]
NoValue == Value("none", "")

\* the values a caller stores: two strings (one the zero value) and one int
Values == {Value("string", ""), Value("string", "x"), Value("int", "0")}

Zero(t) == IF t = "string" THEN Value("string", "") ELSE Value("int", "0")

ValuesOf(t) == {v \in Values : v.t = t}

Serializable(v) == v.t \in Types

\* gob writes a description of the type followed by the value
serialize(it) ==
    IF Serializable(it)
    THEN [bytes |-> <<"gob", it.t, it.v>>, ok |-> TRUE]
    ELSE [bytes |-> <<>>, ok |-> FALSE]

\* gob decodes into the type of the output and fails when the types differ
deserialize(data, outT) ==
    IF Len(data) = 3 /\ data[1] = "gob" /\ data[2] = outT
    THEN [out |-> Value(data[2], data[3]), ok |-> TRUE]
    ELSE [out |-> NoValue, ok |-> FALSE]

\* a value behind n levels of pointer
Ptr(n, v) == [depth |-> n, val |-> v]

\* Set without the loop: the pointer itself is stored
Unwrap_NoLoop(p) == IF p.depth > 0 THEN Value("ptr", p.val.v) ELSE p.val

RECURSIVE Unwrap(_)
\* for reflect.TypeOf(it).Kind() == reflect.Ptr { it = Elem() }
Unwrap(p) == IF p.depth > 0 THEN Unwrap(Ptr(p.depth - 1, p.val)) ELSE p.val

-----------------------------------------------------------------------------
(* Maps *)

EmptyMap == [k \in {} |-> NoValue]

Put(m, k, v) == [x \in DOMAIN m \cup {k} |-> IF x = k THEN v ELSE m[x]]
Remove(m, k) == [x \in DOMAIN m \ {k} |-> m[x]]

RECURSIVE SetToSeq(_)
SetToSeq(S) == IF S = {} THEN <<>>
               ELSE LET x == CHOOSE y \in S : TRUE IN <<x>> \o SetToSeq(S \ {x})

Perms(S) == {s \in [1..Cardinality(S) -> S] : \A x \in S : \E i \in DOMAIN s : s[i] = x}

-----------------------------------------------------------------------------
(* Error kinds: the message constants of the source *)

ErrNil == "nil"
error_read_files_failed == "failed to read files"
error_delete_failed == "failed to delete"
error_save_to_disk_failed == "failed to save"
error_serialize_failed == "failed to serialize"
error_expected_pointer == "expected pointer"
error_key_not_found == "key not found"
error_read_from_disk_failed == "failed to read from disk"
error_deserialize_failed == "failed to deserialize"
\* reflect panics (value of one type assigned to a location of another)
ErrPanic == "panic"

-----------------------------------------------------------------------------
(* The private methods, as functions of the map c, the files d and the      *)
(* existence dx of the directory.  io names the file system fault met by    *)
(* the call, "ok" for none.                                                 *)

\* saveToDisk without os.WriteFile
saveToDisk_NoWrite(d, dx, key, value, io) ==
    [disk |-> d, dir |-> dx, err |-> ErrNil]

\* saveToDisk without the test of ps.inMemory
saveToDisk_AnyMode(d, dx, key, value, io) ==
    IF io = "mkdir" /\ ~dx
    THEN [disk |-> d, dir |-> dx, err |-> error_save_to_disk_failed]
    ELSE LET s == serialize(value) IN
         IF ~s.ok
         THEN [disk |-> d, dir |-> TRUE, err |-> error_serialize_failed]
         ELSE IF io = "write"
         THEN [disk |-> d, dir |-> TRUE, err |-> error_save_to_disk_failed]
         ELSE [disk |-> Put(d, getCacheFilename(key), s.bytes), dir |-> TRUE,
               err |-> ErrNil]

saveToDisk(d, dx, key, value, io) ==
    IF inMemory THEN [disk |-> d, dir |-> dx, err |-> ErrNil]
    ELSE IF io = "mkdir" /\ ~dx
    THEN [disk |-> d, dir |-> dx, err |-> error_save_to_disk_failed]
    ELSE LET s == serialize(value) IN
         IF ~s.ok
         THEN [disk |-> d, dir |-> TRUE, err |-> error_serialize_failed]
         ELSE IF io = "write"
         THEN [disk |-> d, dir |-> TRUE, err |-> error_save_to_disk_failed]
         ELSE [disk |-> Put(d, getCacheFilename(key), s.bytes), dir |-> TRUE,
               err |-> ErrNil]

\* set evicting as soon as the limit is reached (>= for >)
set_EvictAtLimit(c, d, dx, key, value, io, victim) ==
    LET c1 == Put(c, key, value)
        sv == IF SaveToDiskOnSet THEN saveToDisk(d, dx, key, value, io)
              ELSE [disk |-> d, dir |-> dx, err |-> ErrNil]
    IN  IF sv.err # ErrNil
        THEN [cache |-> c1, disk |-> sv.disk, dir |-> sv.dir, err |-> sv.err]
        ELSE IF MaxMemItems # MEM_ITEMS_UNLIMITED /\ Cardinality(DOMAIN c1) >= MaxMemItems
        THEN [cache |-> Remove(c1, victim), disk |-> sv.disk, dir |-> sv.dir,
              err |-> ErrNil]
        ELSE [cache |-> c1, disk |-> sv.disk, dir |-> sv.dir, err |-> ErrNil]

\* set whose eviction removes the file of the evicted key too
set_EvictFile(c, d, dx, key, value, io, victim) ==
    LET c1 == Put(c, key, value)
        sv == IF SaveToDiskOnSet THEN saveToDisk(d, dx, key, value, io)
              ELSE [disk |-> d, dir |-> dx, err |-> ErrNil]
    IN  IF sv.err # ErrNil
        THEN [cache |-> c1, disk |-> sv.disk, dir |-> sv.dir, err |-> sv.err]
        ELSE IF MaxMemItems # MEM_ITEMS_UNLIMITED /\ Cardinality(DOMAIN c1) > MaxMemItems
        THEN [cache |-> Remove(c1, victim),
              disk |-> Remove(sv.disk, getCacheFilename(victim)), dir |-> sv.dir,
              err |-> ErrNil]
        ELSE [cache |-> c1, disk |-> sv.disk, dir |-> sv.dir, err |-> ErrNil]

\* set saving whatever ps.SaveToDiskOnSet is
set_AlwaysSave(c, d, dx, key, value, io, victim) ==
    LET c1 == Put(c, key, value)
        sv == saveToDisk(d, dx, key, value, io)
    IN  IF sv.err # ErrNil
        THEN [cache |-> c1, disk |-> sv.disk, dir |-> sv.dir, err |-> sv.err]
        ELSE IF MaxMemItems # MEM_ITEMS_UNLIMITED /\ Cardinality(DOMAIN c1) > MaxMemItems
        THEN [cache |-> Remove(c1, victim), disk |-> sv.disk, dir |-> sv.dir,
              err |-> ErrNil]
        ELSE [cache |-> c1, disk |-> sv.disk, dir |-> sv.dir, err |-> ErrNil]

\* victim: the key the map iteration yields first when an entry is evicted
set(c, d, dx, key, value, io, victim) ==
    LET c1 == Put(c, key, value)
        sv == IF SaveToDiskOnSet THEN saveToDisk(d, dx, key, value, io)
              ELSE [disk |-> d, dir |-> dx, err |-> ErrNil]
    IN  IF sv.err # ErrNil
        THEN [cache |-> c1, disk |-> sv.disk, dir |-> sv.dir, err |-> sv.err]
        ELSE IF MaxMemItems # MEM_ITEMS_UNLIMITED /\ Cardinality(DOMAIN c1) > MaxMemItems
        THEN [cache |-> Remove(c1, victim), disk |-> sv.disk, dir |-> sv.dir,
              err |-> ErrNil]
        ELSE [cache |-> c1, disk |-> sv.disk, dir |-> sv.dir, err |-> ErrNil]

\* readFromDisk reporting every failure after os.ReadFile as a missing key
readFromDisk_AllNotFound(d, key, outT, init, io) ==
    IF inMemory THEN [out |-> init, err |-> error_key_not_found]
    ELSE IF getCacheFilename(key) \notin DOMAIN d
    THEN [out |-> init, err |-> error_key_not_found]
    ELSE IF io = "read"
    THEN [out |-> init, err |-> error_read_from_disk_failed]
    ELSE LET r == deserialize(d[getCacheFilename(key)], outT) IN
         IF ~r.ok
         THEN [out |-> init, err |-> error_key_not_found]
         ELSE [out |-> r.out, err |-> ErrNil]

\* init: what the caller's variable holds before the call
readFromDisk(d, key, outT, init, io) ==
    IF inMemory THEN [out |-> init, err |-> error_key_not_found]
    ELSE IF getCacheFilename(key) \notin DOMAIN d
    THEN [out |-> init, err |-> error_key_not_found]
    ELSE IF io = "read"
    THEN [out |-> init, err |-> error_read_from_disk_failed]
    ELSE LET r == deserialize(d[getCacheFilename(key)], outT) IN
         IF ~r.ok
         THEN [out |-> init, err |-> error_deserialize_failed]
         ELSE [out |-> r.out, err |-> ErrNil]

\* the out arguments whose reflect.Kind is not Ptr: "nonptr" a value of some
\* type, "nil" the nil interface (Kind Invalid, and reflect.Value.Type, called
\* to build the error message, panics on it)
NonPointers == {"nonptr", "nil"}

\* whether get stores the caller's variable in the map after readFromDisk
getCachesOnMiss(err) == err # ErrNil

\* get without outReflect.Elem().Set(reflect.ValueOf(it))
get_NoCopy(c, d, key, outT, init, io) ==
    IF outT = "nil"
    THEN [cache |-> c, out |-> NoValue, err |-> ErrPanic]
    ELSE IF outT = "nonptr"
    THEN [cache |-> c, out |-> NoValue, err |-> error_expected_pointer]
    ELSE IF key \notin DOMAIN c
    THEN LET r == readFromDisk(d, key, outT, init, io) IN
         [cache |-> IF getCachesOnMiss(r.err) THEN Put(c, key, r.out) ELSE c,
          out |-> r.out, err |-> r.err]
    ELSE [cache |-> c, out |-> init, err |-> ErrNil]

get(c, d, key, outT, init, io) ==
    IF outT = "nil"
    THEN [cache |-> c, out |-> NoValue, err |-> ErrPanic]
    ELSE IF outT = "nonptr"
    THEN [cache |-> c, out |-> NoValue, err |-> error_expected_pointer]
    ELSE IF key \notin DOMAIN c
    THEN LET r == readFromDisk(d, key, outT, init, io) IN
         [cache |-> IF getCachesOnMiss(r.err) THEN Put(c, key, r.out) ELSE c,
          out |-> r.out, err |-> r.err]
    ELSE IF c[key].t = outT
    THEN [cache |-> c, out |-> c[key], err |-> ErrNil]
    ELSE [cache |-> c, out |-> init, err |-> ErrPanic]

\* os.ReadDir(ps.path): the files of the directory; ps.path is "" when inMemory
ReadDirFails(dx, io) == inMemory \/ ~dx \/ io = "readdir"

\* has looking in the map only
has_MemoryOnly(c, d, dx, key, io) ==
    [found |-> key \in DOMAIN c, err |-> ErrNil]

has(c, d, dx, key, io) ==
    IF key \in DOMAIN c THEN [found |-> TRUE, err |-> ErrNil]
    ELSE IF ReadDirFails(dx, io) THEN [found |-> FALSE, err |-> error_read_files_failed]
    ELSE [found |-> getCacheFilename(key) \in DOMAIN d, err |-> ErrNil]

IsCacheFile(f) == HasPrefix(f, name \o <<"_">>) /\ HasSuffix(f, cache_ext)

RECURSIVE keysOf_NoTrimSuffix(_)
\* keysOf stripping the prefix only
keysOf_NoTrimSuffix(files) ==
    IF files = <<>> THEN <<>>
    ELSE IF IsCacheFile(Head(files))
    THEN <<TrimPrefix(Head(files), name \o <<"_">>)>> \o keysOf_NoTrimSuffix(Tail(files))
    ELSE keysOf_NoTrimSuffix(Tail(files))

RECURSIVE keysOf(_)
keysOf(files) ==
    IF files = <<>> THEN <<>>
    ELSE IF IsCacheFile(Head(files))
    THEN <<TrimSuffix(TrimPrefix(Head(files), name \o <<"_">>), cache_ext)>>
         \o keysOf(Tail(files))
    ELSE keysOf(Tail(files))

keys(d, dx, io) ==
    IF ReadDirFails(dx, io) THEN [keys |-> <<>>, err |-> error_read_files_failed]
    ELSE [keys |-> keysOf(SetToSeq(DOMAIN d)), err |-> ErrNil]

len(d, dx, io) ==
    IF ReadDirFails(dx, io) THEN [count |-> 0 - 1, err |-> error_read_files_failed]
    ELSE [count |-> Cardinality({f \in DOMAIN d : IsCacheFile(f)}), err |-> ErrNil]

\* delete with os.Remove, which fails on a file that does not exist
delete_Remove(c, d, key, io) ==
    IF inMemory THEN [cache |-> Remove(c, key), disk |-> d, err |-> ErrNil]
    ELSE IF io = "remove" \/ getCacheFilename(key) \notin DOMAIN d
    THEN [cache |-> Remove(c, key), disk |-> d, err |-> error_delete_failed]
    ELSE [cache |-> Remove(c, key), disk |-> Remove(d, getCacheFilename(key)),
          err |-> ErrNil]

delete(c, d, key, io) ==
    IF inMemory THEN [cache |-> Remove(c, key), disk |-> d, err |-> ErrNil]
    ELSE IF io = "remove" /\ getCacheFilename(key) \in DOMAIN d
    THEN [cache |-> Remove(c, key), disk |-> d, err |-> error_delete_failed]
    ELSE [cache |-> Remove(c, key), disk |-> Remove(d, getCacheFilename(key)),
          err |-> ErrNil]

\* the loop of SaveToDisk returning after its first saveToDisk
saveAll_FirstOnly(c, d, dx, order, failAt, io) ==
    IF order = <<>> THEN [disk |-> d, dir |-> dx, err |-> ErrNil]
    ELSE saveToDisk(d, dx, Head(order), c[Head(order)],
                    IF failAt = 1 THEN io ELSE "ok")

RECURSIVE saveAll(_, _, _, _, _, _)
\* for k, v := range ps.cache: order is the iteration order, the failAt-th
\* saveToDisk meets the fault io
saveAll(c, d, dx, order, failAt, io) ==
    IF order = <<>> THEN [disk |-> d, dir |-> dx, err |-> ErrNil]
    ELSE LET r == saveToDisk(d, dx, Head(order), c[Head(order)],
                             IF failAt = 1 THEN io ELSE "ok") IN
         IF r.err # ErrNil THEN r
         ELSE saveAll(c, r.disk, r.dir, Tail(order), failAt - 1, io)

-----------------------------------------------------------------------------
(* State after construction *)

Threads == 1..NumThreads

\* cur[t]: the method goroutine t is in and the call it has deferred
NoCall == [op |-> "none", deferred |-> "none"]

\* The record of a completed call.  val: for Set the value stored; for Get
\* the value stored by a successful Set of the same key that came just before
\* (or just before the construction of this instance, when that Set was
\* persisted).  out, found, keys, count: the results (found, for Delete:
\* the key was in the map or had a file when the call was made).  src: where Get looked the
\* key up ("mem": in ps.cache, "disk": in its file, "none": nowhere).  fresh:
\* the call is the first of a new instance.  run: for Set, how many successful
\* Sets of distinct keys in a row have been made on a map that was empty, this
\* one included (0 when this is no such run).  count: for Set, the number of
\* entries it evicted.  depth: for Set, the levels of pointer around the value
\* given.  msg: the text of an error, see SpecErr.
Rec(op, key, val, outT, err, out) ==
    [op |-> op, key |-> key, val |-> val, outT |-> outT, err |-> err, out |-> out,
     found |-> FALSE, keys |-> <<>>, count |-> 0, src |-> "none", fresh |-> FALSE,
     run |-> 0, depth |-> 0, msg |-> <<>>]

\* New(path, name) and NewInMemory(name)
Constructed(mem) ==
    /\ cache = EmptyMap
    /\ MaxMemItems = IF mem THEN MEM_ITEMS_UNLIMITED ELSE MEM_ITEMS_DEFAULT
    /\ inMemory = mem
    /\ SaveToDiskOnSet = ~mem
    /\ ThreadSafe = FALSE
    /\ name = CacheName
    /\ mutex = 0

Init ==
    /\ \E mem \in BOOLEAN : Constructed(mem)
    /\ disk = EmptyMap
    /\ dirExists \in (IF inMemory THEN {FALSE} ELSE BOOLEAN)
    /\ pc = [t \in Threads |-> "idle"]
    /\ cur = [t \in Threads |-> NoCall]
    /\ crashed = FALSE
    /\ last = Rec("New", <<>>, NoValue, "", ErrNil, NoValue)
    /\ lastSet = EmptyMap
    /\ clean = TRUE

MemoryItemsCount(count) == IF count < 0 THEN MEM_ITEMS_UNLIMITED ELSE count

OutTypes == Types \cup NonPointers

\* what the caller's variable may hold before Get
Inits(outT) == IF outT \in NonPointers THEN {NoValue} ELSE ValuesOf(outT)

-----------------------------------------------------------------------------
(* Spec: the public methods called one at a time by a single caller *)

\* a Set made now writes the file of its key
Persisting == ~inMemory /\ SaveToDiskOnSet

Sequential == ~ThreadSafe /\ ~crashed /\ \A t \in Threads : pc[t] = "idle"

\* history of a call that returned err; ok: the call keeps `clean`
Hist(ok, ls) ==
    /\ clean' = (clean /\ ok)
    /\ lastSet' = IF clean /\ ok THEN ls ELSE EmptyMap

\* the run of Sets on distinct keys from an empty map that a Set of key continues
RunOf(key) ==
    IF cache = EmptyMap THEN 1
    ELSE IF last.op = "Set" /\ last.err = ErrNil /\ last.run >= 1
            /\ key \notin DOMAIN cache
            /\ MaxMemItems # MEM_ITEMS_UNLIMITED /\ last.run <= MaxMemItems
    THEN last.run + 1
    ELSE 0

Set(key, p, io, victim) ==
    /\ Sequential
    /\ LET it == Unwrap(p)
           r == set(cache, disk, dirExists, key, it, io, victim) IN
       /\ cache' = r.cache
       /\ disk' = r.disk
       /\ dirExists' = r.dir
       /\ last' = [Rec("Set", key, it, "", r.err, NoValue) EXCEPT
                     !.run = IF r.err = ErrNil THEN RunOf(key) ELSE 0,
                     !.depth = p.depth,
                     !.count = Cardinality(DOMAIN cache \cup {key})
                                 - Cardinality(DOMAIN r.cache)]
       /\ Hist(r.err = ErrNil /\ SaveToDiskOnSet /\ ~inMemory, Put(lastSet, key, it))
    /\ UNCHANGED <<cfgVars, thrVars>>

\* the value a Get of key follows, see Rec
Follows(key) ==
    IF last.op \in {"Set", "New"} /\ last.err = ErrNil /\ last.key = key
    THEN last.val ELSE NoValue

SrcOf(key) ==
    IF key \in DOMAIN cache THEN "mem"
    ELSE IF ~inMemory /\ getCacheFilename(key) \in DOMAIN disk THEN "disk"
    ELSE "none"

Get(key, outT, init, io) ==
    /\ Sequential
    /\ LET r == get(cache, disk, key, outT, init, io) IN
       /\ cache' = r.cache
       /\ last' = [Rec("Get", key, Follows(key), outT, r.err, r.out) EXCEPT
                     !.src = SrcOf(key), !.fresh = (last.op = "New")]
       /\ Hist(r.err = ErrNil, lastSet)
    /\ UNCHANGED <<disk, dirExists, cfgVars, thrVars>>

Has(key, io) ==
    /\ Sequential
    /\ LET r == has(cache, disk, dirExists, key, io) IN
       last' = [Rec("Has", key, NoValue, "", r.err, NoValue) EXCEPT !.found = r.found]
    /\ UNCHANGED <<cache, disk, dirExists, cfgVars, thrVars, lastSet, clean>>

KeysCall(io) ==
    /\ Sequential
    /\ LET r == keys(disk, dirExists, io) IN
       last' = [Rec("Keys", <<>>, NoValue, "", r.err, NoValue) EXCEPT !.keys = r.keys]
    /\ UNCHANGED <<cache, disk, dirExists, cfgVars, thrVars, lastSet, clean>>

LenCall(io) ==
    /\ Sequential
    /\ LET r == len(disk, dirExists, io) IN
       last' = [Rec("Len", <<>>, NoValue, "", r.err, NoValue) EXCEPT !.count = r.count]
    /\ UNCHANGED <<cache, disk, dirExists, cfgVars, thrVars, lastSet, clean>>

Delete(key, io) ==
    /\ Sequential
    /\ LET r == delete(cache, disk, key, io) IN
       /\ cache' = r.cache
       /\ disk' = r.disk
       /\ last' = [Rec("Delete", key, NoValue, "", r.err, NoValue) EXCEPT
                     !.found = (SrcOf(key) # "none")]
       /\ Hist(r.err = ErrNil, Remove(lastSet, key))
    /\ UNCHANGED <<dirExists, cfgVars, thrVars>>

SaveToDisk(order, failAt, io) ==
    /\ Sequential
    /\ LET r == IF SaveToDiskOnSet
                THEN [disk |-> disk, dir |-> dirExists, err |-> ErrNil]
                ELSE saveAll(cache, disk, dirExists, order, failAt, io) IN
       /\ disk' = r.disk
       /\ dirExists' = r.dir
       /\ last' = Rec("SaveToDisk", <<>>, NoValue, "", r.err, NoValue)
       /\ Hist(r.err = ErrNil, lastSet)
    /\ UNCHANGED <<cache, cfgVars, thrVars>>

\* ps.MaxMemItems = pstore.MemoryItemsCount(count)
SetMaxMemItems(count) ==
    /\ Sequential
    /\ MaxMemItems' = MemoryItemsCount(count)
    /\ MaxMemItems' # MaxMemItems
    /\ last' = Rec("Config", <<>>, NoValue, "", ErrNil, NoValue)
    /\ UNCHANGED <<cache, disk, dirExists, ThreadSafe, SaveToDiskOnSet, inMemory, name,
                   thrVars, lastSet, clean>>

\* ps.SaveToDiskOnSet = b
SetSaveToDiskOnSet(b) ==
    /\ Sequential
    /\ SaveToDiskOnSet' = b
    /\ SaveToDiskOnSet' # SaveToDiskOnSet
    /\ last' = Rec("Config", <<>>, NoValue, "", ErrNil, NoValue)
    /\ UNCHANGED <<cache, disk, dirExists, MaxMemItems, ThreadSafe, inMemory, name,
                   thrVars, lastSet, clean>>

\* a new instance over the same directory and name replaces the old one
New ==
    /\ Sequential
    /\ cache' = EmptyMap
    /\ MaxMemItems' = IF inMemory THEN MEM_ITEMS_UNLIMITED ELSE MEM_ITEMS_DEFAULT
    /\ SaveToDiskOnSet' = ~inMemory
    /\ last' = IF last.op = "Set" /\ last.err = ErrNil /\ Persisting
               THEN Rec("New", last.key, last.val, "", ErrNil, NoValue)
               ELSE Rec("New", <<>>, NoValue, "", ErrNil, NoValue)
    /\ UNCHANGED <<disk, dirExists, ThreadSafe, inMemory, name, thrVars, lastSet, clean>>

\* the faults a call can meet in the current state
SetFaults == IF Persisting
             THEN {"ok", "write"} \cup (IF dirExists THEN {} ELSE {"mkdir"})
             ELSE {"ok"}
SaveFaults == IF inMemory THEN {"ok"}
              ELSE {"write"} \cup (IF dirExists THEN {} ELSE {"mkdir"})
ReadFaults(key) == IF ~inMemory /\ key \notin DOMAIN cache
                      /\ getCacheFilename(key) \in DOMAIN disk
                   THEN {"ok", "read"} ELSE {"ok"}
ReadDirFaults == IF ReadDirFails(dirExists, "ok") THEN {"ok"} ELSE {"ok", "readdir"}
RemoveFaults(key) == IF ~inMemory /\ getCacheFilename(key) \in DOMAIN disk
                     THEN {"ok", "remove"} ELSE {"ok"}
\* the keys the map iteration of an eviction can yield first
Victims(key) == IF MaxMemItems # MEM_ITEMS_UNLIMITED
                   /\ Cardinality(DOMAIN cache \cup {key}) > MaxMemItems
                THEN DOMAIN cache \cup {key} ELSE {key}
\* how a value is given to Set: "x" as it is or behind MaxPtrDepth levels of
\* pointer, the other values as they are
PtrDepths(v) == IF v = Value("string", "x") THEN {0, MaxPtrDepth} ELSE {0}
\* the iteration orders of SaveToDisk
Orders == IF SaveToDiskOnSet THEN {<<>>} ELSE Perms(DOMAIN cache)

Next ==
    \/ \E key \in Keys, v \in Values, io \in SetFaults :
         \E n \in PtrDepths(v), victim \in Victims(key) : Set(key, Ptr(n, v), io, victim)
    \/ \E key \in Keys, outT \in OutTypes :
         \E io \in ReadFaults(key), init \in Inits(outT) : Get(key, outT, init, io)
    \/ \E key \in Keys, io \in ReadDirFaults : Has(key, io)
    \/ \E io \in ReadDirFaults : KeysCall(io)
    \/ \E io \in ReadDirFaults : LenCall(io)
    \/ \E key \in Keys : \E io \in RemoveFaults(key) : Delete(key, io)
    \/ \E order \in Orders, io \in SaveFaults :
         \E failAt \in 0..Len(order) : SaveToDisk(order, failAt, io)
    \/ \E count \in (0 - 1)..MaxLimit : SetMaxMemItems(count)
    \/ \E b \in BOOLEAN : SetSaveToDiskOnSet(b)
    \/ New

Spec == Init /\ [][Next]_vars

-----------------------------------------------------------------------------
(* SpecTS: ThreadSafe = true, the public methods called from several        *)
(* goroutines.  A call is at "start" before its first statement, in "body"  *)
(* while it reads or writes ps.cache or the files, and at "exit" once its   *)
(* result is computed and its deferred call is still to run.                *)

LockingOps == {"Set", "Get", "Has", "Keys", "Len", "SaveToDisk"}

\* the call deferred after ps.mutex.Lock(), as written in each method
Deferred(op) == IF op \in {"Has", "Keys", "Len"} THEN "Unlock" ELSE "Lock"

InitTS ==
    /\ \E mem \in BOOLEAN :
         /\ cache = EmptyMap
         /\ MaxMemItems = IF mem THEN MEM_ITEMS_UNLIMITED ELSE MEM_ITEMS_DEFAULT
         /\ inMemory = mem
    /\ SaveToDiskOnSet \in BOOLEAN
    /\ ThreadSafe = TRUE
    /\ name = CacheName
    /\ mutex = 0
    /\ disk = EmptyMap
    /\ dirExists = ~inMemory
    /\ pc = [t \in Threads |-> "idle"]
    /\ cur = [t \in Threads |-> NoCall]
    /\ crashed = FALSE
    /\ last = Rec("New", <<>>, NoValue, "", ErrNil, NoValue)
    /\ lastSet = EmptyMap
    /\ clean = TRUE

TSKey == <<"k", "1">>
TSValue == Value("string", "x")

Call(t, op) ==
    /\ ThreadSafe /\ ~crashed
    /\ pc[t] = "idle"
    /\ pc' = [pc EXCEPT ![t] = "start"]
    /\ cur' = [cur EXCEPT ![t] = [NoCall EXCEPT !.op = op]]
    /\ UNCHANGED <<cache, disk, dirExists, cfgVars, mutex, crashed, last, lastSet, clean>>

\* if ps.SaveToDiskOnSet { return nil }, before any use of the mutex
EarlyReturn(t) ==
    /\ ~crashed
    /\ pc[t] = "start" /\ cur[t].op = "SaveToDisk" /\ SaveToDiskOnSet
    /\ pc' = [pc EXCEPT ![t] = "exit"]
    /\ UNCHANGED <<cache, disk, dirExists, cfgVars, mutex, cur, crashed, last, lastSet,
                   clean>>

\* if ps.ThreadSafe { ps.mutex.Lock(); defer ... }
Acquire(t) ==
    /\ ~crashed
    /\ pc[t] = "start" /\ cur[t].op \in LockingOps
    /\ ~(cur[t].op = "SaveToDisk" /\ SaveToDiskOnSet)
    /\ ThreadSafe
    /\ mutex = 0
    /\ mutex' = t
    /\ cur' = [cur EXCEPT ![t].deferred = Deferred(cur[t].op)]
    /\ pc' = [pc EXCEPT ![t] = "body"]
    /\ UNCHANGED <<cache, disk, dirExists, cfgVars, crashed, last, lastSet, clean>>

\* Delete starts on ps.cache without touching the mutex
EnterUnlocked(t) ==
    /\ ~crashed
    /\ pc[t] = "start" /\ cur[t].op = "Delete"
    /\ pc' = [pc EXCEPT ![t] = "body"]
    /\ UNCHANGED <<cache, disk, dirExists, cfgVars, mutex, cur, crashed, last, lastSet,
                   clean>>

\* the effect of the body of method op, called with TSKey and TSValue (Set)
\* or a string variable (Get), on the map, the files and the directory
Body(op) ==
    CASE op = "Set" ->
           LET r == set(cache, disk, dirExists, TSKey, TSValue, "ok", TSKey)
           IN [cache |-> r.cache, disk |-> r.disk, dir |-> r.dir]
      [] op = "Get" ->
           [cache |-> get(cache, disk, TSKey, "string", Zero("string"), "ok").cache,
            disk |-> disk, dir |-> dirExists]
      [] op = "Delete" ->
           LET r == delete(cache, disk, TSKey, "ok")
           IN [cache |-> r.cache, disk |-> r.disk, dir |-> dirExists]
      [] op = "SaveToDisk" ->
           LET r == saveAll(cache, disk, dirExists, SetToSeq(DOMAIN cache), 0, "ok")
           IN [cache |-> cache, disk |-> r.disk, dir |-> r.dir]
      [] OTHER -> [cache |-> cache, disk |-> disk, dir |-> dirExists]

Racing(t) == \E u \in Threads \ {t} : pc[u] = "body"

Exec(t) ==
    /\ ~crashed
    /\ pc[t] = "body"
    /\ LET r == Body(cur[t].op) IN
       /\ cache' = r.cache
       /\ disk' = r.disk
       /\ dirExists' = r.dir
    /\ pc' = [pc EXCEPT ![t] = "exit"]
    /\ UNCHANGED <<cfgVars, mutex, cur, crashed, last, lastSet, clean>>

\* two goroutines on the map at once: the runtime may abort the process
\* ("fatal error: concurrent map writes")
ExecRace(t) ==
    /\ ~crashed
    /\ pc[t] = "body" /\ Racing(t)
    /\ crashed' = TRUE
    /\ UNCHANGED <<cache, disk, dirExists, cfgVars, mutex, pc, cur, last, lastSet, clean>>

\* the deferred call runs and the method returns
Exit(t) ==
    /\ ~crashed
    /\ pc[t] = "exit"
    /\ CASE cur[t].deferred = "Unlock" -> mutex' = 0
         [] cur[t].deferred = "Lock" -> mutex = 0 /\ mutex' = t
         [] OTHER -> mutex' = mutex
    /\ pc' = [pc EXCEPT ![t] = "idle"]
    /\ cur' = [cur EXCEPT ![t] = NoCall]
    /\ UNCHANGED <<cache, disk, dirExists, cfgVars, crashed, last, lastSet, clean>>

Step(t) == EarlyReturn(t) \/ Acquire(t) \/ EnterUnlocked(t) \/ Exec(t) \/ Exit(t)

NextTS ==
    \/ \E t \in Threads, op \in LockingOps \cup {"Delete"} : Call(t, op)
    \/ \E t \in Threads : EarlyReturn(t)
    \/ \E t \in Threads : Acquire(t)
    \/ \E t \in Threads : EnterUnlocked(t)
    \/ \E t \in Threads : Exec(t)
    \/ \E t \in Threads : ExecRace(t)
    \/ \E t \in Threads : Exit(t)

SpecTS == InitTS /\ [][NextTS]_vars

\* the Go scheduler runs every goroutine that can run
FairSpecTS == SpecTS /\ \A t \in Threads : WF_vars(Step(t))

-----------------------------------------------------------------------------
(* SpecErr: the errors the methods build, and the predicates that tell their *)
(* kind.  Here a text (message, key, cache name, cause) is a sequence of     *)
(* words, and strings.Contains is the search of a run of words.              *)

error_prefix == <<"pstore:">>

ErrorKinds == {error_read_files_failed, error_delete_failed, error_save_to_disk_failed,
               error_serialize_failed, error_expected_pointer, error_key_not_found,
               error_read_from_disk_failed, error_deserialize_failed}

\* the words of each message constant
Words(kind) ==
    CASE kind = error_read_files_failed -> <<"failed", "to", "read", "files">>
      [] kind = error_delete_failed -> <<"failed", "to", "delete">>
      [] kind = error_save_to_disk_failed -> <<"failed", "to", "save">>
      [] kind = error_serialize_failed -> <<"failed", "to", "serialize">>
      [] kind = error_expected_pointer -> <<"expected", "pointer">>
      [] kind = error_key_not_found -> <<"key", "not", "found">>
      [] kind = error_read_from_disk_failed -> <<"failed", "to", "read", "from", "disk">>
      [] kind = error_deserialize_failed -> <<"failed", "to", "deserialize">>

\* strings.Contains(s, p)
Contains(s, p) ==
    \E i \in 1..(Len(s) - Len(p) + 1) : SubSeq(s, i, i + Len(p) - 1) = p

\* ps.errorf: "pstore: " + ps.name + ": " + the formatted text
errorf(text) == error_prefix \o name \o text

\* the text each method formats for an error of the kind, about key, wrapping
\* cause (for ExpectedPointer: the name of out's type)
ErrorText(kind, key, cause) ==
    CASE kind = error_key_not_found -> errorf(Words(kind) \o key)
      [] kind = error_read_files_failed -> errorf(Words(kind) \o cause)
      [] kind = error_expected_pointer ->
           errorf(Words(kind) \o <<"but", "got", "type">> \o cause)
      [] OTHER -> errorf(Words(kind) \o key \o cause)

IsPStoreError(err) ==
    Len(err) >= Len(error_prefix) /\ SubSeq(err, 1, Len(error_prefix)) = error_prefix

\* IsKeyNotFound, IsDeleteFailed, ...: the predicate of the kind
IsKind(err, kind) == IsPStoreError(err) /\ Contains(err, Words(kind))

\* keys, cache names and causes: plain ones, and ones that read like a message
ErrKeys == {<<"k1">>, <<"key", "not", "found">>, <<"failed", "to", "delete">>,
            <<"failed", "to", "save">>}
ErrNames == {<<"n">>, <<"failed", "to", "read", "files">>}
ErrCauses == {<<"permission", "denied">>, <<"unexpected", "EOF">>, <<"string">>}

InitErr ==
    /\ cache = EmptyMap
    /\ MaxMemItems = MEM_ITEMS_DEFAULT
    /\ inMemory = FALSE
    /\ SaveToDiskOnSet = TRUE
    /\ ThreadSafe = FALSE
    /\ name \in ErrNames
    /\ mutex = 0
    /\ disk = EmptyMap
    /\ dirExists = TRUE
    /\ pc = [t \in Threads |-> "idle"]
    /\ cur = [t \in Threads |-> NoCall]
    /\ crashed = FALSE
    /\ last = Rec("New", <<>>, NoValue, "", ErrNil, NoValue)
    /\ lastSet = EmptyMap
    /\ clean = TRUE

\* a method returns an error of the kind
Fail(kind, key, cause) ==
    /\ Sequential
    /\ last' = [Rec("Error", key, NoValue, "", kind, NoValue) EXCEPT
                  !.msg = ErrorText(kind, key, cause)]
    /\ UNCHANGED <<cache, disk, dirExists, cfgVars, thrVars, lastSet, clean>>

NextErr == \E kind \in ErrorKinds, key \in ErrKeys, cause \in ErrCauses : Fail(kind, key, cause)

SpecErr == InitErr /\ [][NextErr]_vars

-----------------------------------------------------------------------------
(* SpecNS: two instances with different names over one directory.  The one   *)
(* modelled only reads; the other one, named OtherName, writes files.        *)

NSNames == {<<"n">>, <<"n", "_", "a">>}
NSKeys == {<<"k">>, <<"a", "_", "k">>}

OtherName == CHOOSE nm \in NSNames : nm # name

InitNS ==
    /\ cache = EmptyMap
    /\ MaxMemItems = MEM_ITEMS_DEFAULT
    /\ inMemory = FALSE
    /\ SaveToDiskOnSet = TRUE
    /\ ThreadSafe = FALSE
    /\ name \in NSNames
    /\ mutex = 0
    /\ disk = EmptyMap
    /\ dirExists = TRUE
    /\ pc = [t \in Threads |-> "idle"]
    /\ cur = [t \in Threads |-> NoCall]
    /\ crashed = FALSE
    /\ last = Rec("New", <<>>, NoValue, "", ErrNil, NoValue)
    /\ lastSet = EmptyMap
    /\ clean = TRUE

\* Set(key, v) on the other instance, SaveToDiskOnSet = true: os.WriteFile
OtherSet(key, v) ==
    /\ Sequential
    /\ disk' = Put(disk, CacheFilenameOf(OtherName, key), serialize(v).bytes)
    /\ last' = Rec("OtherSet", key, v, "", ErrNil, NoValue)
    /\ UNCHANGED <<cache, dirExists, cfgVars, thrVars, lastSet, clean>>

NextNS ==
    \/ \E key \in NSKeys, v \in Values : OtherSet(key, v)
    \/ \E key \in NSKeys, outT \in Types : \E init \in Inits(outT) : Get(key, outT, init, "ok")
    \/ \E key \in NSKeys : Has(key, "ok")
    \/ KeysCall("ok")
    \/ LenCall("ok")

SpecNS == InitNS /\ [][NextNS]_vars

-----------------------------------------------------------------------------
(* Claims *)

\* a Get of last.key into a variable of the type of the value that the Set
\* just before it stored, and which met no read fault
GetAfterSet ==
    /\ last.op = "Get" /\ last.val # NoValue /\ last.outT = last.val.t
    /\ last.err # error_read_from_disk_failed

GetReturned(v) == last.err = ErrNil /\ last.out = v

\* C1 as stated: under every configuration, a successful Set(k, v) directly
\* followed by Get(k, &out), out of v's type, succeeds with out = v.
C1_RoundTripAnyConfig == (GetAfterSet /\ ~last.fresh) => GetReturned(last.val)

\* C1, amended: the same, provided k is still in the map after the Set (it
\* was not the entry evicted) or the cache is disk-backed with
\* SaveToDiskOnSet = true, so that the Set wrote the file of k.
C1_RoundTrip ==
    (GetAfterSet /\ ~last.fresh /\ (last.src = "mem" \/ Persisting))
        => GetReturned(last.val)

\* a round trip served from the map, and one served from the file of an
\* evicted key
C1_Witness ==
    /\ GetAfterSet /\ ~last.fresh /\ GetReturned(last.val)
    /\ last.src = "disk" /\ last.val = Value("string", "x")

\* C2: after a successful Set(k, v) with SaveToDiskOnSet = true, a newly
\* constructed cache over the same directory and name, its map empty, returns
\* success from Get(k, &out), out of v's type, with out = v.
C2_DiskPromotion == (GetAfterSet /\ last.fresh) => GetReturned(last.val)

C2_Witness ==
    /\ GetAfterSet /\ last.fresh /\ GetReturned(last.val)
    /\ last.src = "disk" /\ last.val = Value("string", "x")

\* C3 as stated: with ThreadSafe enabled, an operation that has locked the
\* mutex unlocks it again on its way out, so that the mutex does not stay
\* locked by a call.
C3_MutexReleased == \A t \in Threads : (mutex = t) ~> (mutex # t)

\* C4 as stated: with ThreadSafe enabled no set of calls deadlocks: whenever
\* calls are in progress, one of them can take its next step.
InProgress(t) == pc[t] # "idle"
C4_NoDeadlock ==
    ~crashed => ((\E t \in Threads : InProgress(t))
                    => (\E t \in Threads : InProgress(t) /\ ENABLED Step(t)))

\* C5 as stated: with ThreadSafe enabled, a goroutine is in the body of a
\* public operation only while it holds the mutex, so no two are there at once.
C5_MutualExclusion ==
    /\ \A t \in Threads : pc[t] = "body" => mutex = t
    /\ \A t, u \in Threads : (pc[t] = "body" /\ pc[u] = "body") => t = u

Finite == MaxMemItems # MEM_ITEMS_UNLIMITED
InMem == Cardinality(DOMAIN cache)

\* C6: from an empty map and with MaxMemItems = N finite, the Set that is the
\* (N+1)-th of a run of successful Sets on distinct keys leaves exactly N
\* entries in the map and evicted exactly one; the Sets before it in the run
\* evicted none.
C6_EvictionBound ==
    (last.op = "Set" /\ last.err = ErrNil /\ last.run >= 1 /\ Finite)
        => IF last.run = MaxMemItems + 1
           THEN InMem = MaxMemItems /\ last.count = 1
           ELSE InMem = last.run /\ last.count = 0

C6_Witness ==
    /\ last.op = "Set" /\ last.err = ErrNil /\ Finite
    /\ MaxMemItems >= 1 /\ last.run = MaxMemItems + 1
    /\ InMem = MaxMemItems /\ last.count = 1

\* C7 as stated: while MaxMemItems stays at a finite N, no operation takes the
\* number of entries in the map from at most N to more than N.
C7_BoundKept ==
    [][(MaxMemItems' = MaxMemItems /\ Finite /\ InMem <= MaxMemItems)
          => Cardinality(DOMAIN cache') <= MaxMemItems]_vars

\* what Get(k, &out), out of type t, would return now, whatever out holds
Retrievable(k, v) ==
    \A init \in ValuesOf(v.t) :
        LET r == get(cache, disk, k, v.t, init, "ok") IN r.err = ErrNil /\ r.out = v

SameFile(f) ==
    /\ (f \in DOMAIN disk) = (f \in DOMAIN disk')
    /\ f \in DOMAIN disk => disk'[f] = disk[f]

\* C8: on a disk-backed cache with SaveToDiskOnSet = true, a Set changes no
\* file but the one of its own key, whatever it evicts; and after successful
\* Sets, Gets and Deletes every key that was Set and not Deleted since is
\* retrievable by Get with the value of its latest Set.
C8_EvictionKeepsFiles ==
    /\ [](clean => \A k \in DOMAIN lastSet : Retrievable(k, lastSet[k]))
    /\ [][last'.op = "Set" =>
            /\ \A f \in (DOMAIN disk \cup DOMAIN disk') \ {getCacheFilename(last'.key)} :
                 SameFile(f)
            /\ ~Persisting => disk' = disk]_vars

\* a key evicted from the map was read back from its file by Get
C8_Witness ==
    /\ clean /\ Finite /\ MaxMemItems <= MaxLimit
    /\ last.op = "Get" /\ last.err = ErrNil /\ last.src = "disk" /\ ~last.fresh
    /\ last.key \in DOMAIN lastSet /\ last.out = lastSet[last.key]
    /\ Cardinality(DOMAIN lastSet) > InMem

\* C9 as stated: a Get that misses the map and reads a decodable file returns
\* success and leaves the key in the map with the value read.
C9_GetPromotes ==
    (last.op = "Get" /\ last.src = "disk" /\ last.err = ErrNil)
        => (last.key \in DOMAIN cache /\ cache[last.key] = last.out)

\* C10: Has(k) returns true exactly when k is in the map or the file
\* <name>_<k>.pcache is in the directory (the listing of an existing directory
\* not failing), and Has changes neither the map nor any file.
C10_HasReadsOnly ==
    [][last'.op = "Has" =>
         /\ cache' = cache /\ disk' = disk /\ dirExists' = dirExists
         /\ (last'.err = ErrNil \/ inMemory \/ ~dirExists)
              => (last'.found <=> (last'.key \in DOMAIN cache
                                   \/ getCacheFilename(last'.key) \in DOMAIN disk))]_vars

\* Has found on disk a key that is not in the map, and left it out of the map
C10_Witness ==
    /\ last.op = "Has" /\ last.found /\ last.err = ErrNil
    /\ last.key \notin DOMAIN cache
    /\ getCacheFilename(last.key) \in DOMAIN disk

\* C11 as stated: in an in-memory-only cache a Get(k) that failed with
\* KeyNotFound and is directly followed by another Get(k), no Set in between,
\* is followed by a KeyNotFound failure again.
C11_MissStaysMiss ==
    [][(inMemory /\ last.op = "Get" /\ last.err = error_key_not_found
          /\ last'.op = "Get" /\ last'.key = last.key /\ last'.outT \notin NonPointers)
         => last'.err = error_key_not_found]_vars

\* C12: an in-memory-only cache changes no file and creates no directory,
\* whatever the call and whatever SaveToDiskOnSet and MaxMemItems are.
C12_InMemoryNoFiles ==
    [][inMemory => (disk' = disk /\ dirExists' = dirExists)]_vars

\* SaveToDisk has returned on an in-memory-only cache that holds entries and
\* has SaveToDiskOnSet = false, and there is still neither file nor directory
C12_Witness ==
    /\ inMemory /\ ~SaveToDiskOnSet /\ cache # EmptyMap
    /\ last.op = "SaveToDisk" /\ last.err = ErrNil
    /\ disk = EmptyMap /\ ~dirExists

\* k is neither in the map nor on disk
Absent(k) == k \notin DOMAIN cache /\ getCacheFilename(k) \notin DOMAIN disk

AbsentAfter(k) == k \notin DOMAIN cache' /\ getCacheFilename(k) \notin DOMAIN disk'

\* the entries and the files of the keys other than k are the same after the step
OthersSame(k) ==
    /\ \A j \in (DOMAIN cache \cup DOMAIN cache') \ {k} :
         j \in DOMAIN cache /\ j \in DOMAIN cache' /\ cache'[j] = cache[j]
    /\ \A f \in (DOMAIN disk \cup DOMAIN disk') \ {getCacheFilename(k)} : SameFile(f)

\* C13 as stated: on a disk-backed cache a successful Delete(k) leaves k out
\* of the map and without file and changes nothing of the other keys; and k
\* is still out of the map and without file (Has false, Get KeyNotFound)
\* after the call that follows the Delete, unless that call is a Set of k.
C13_DeleteMakesAbsent ==
    [][/\ (last'.op = "Delete" /\ last'.err = ErrNil /\ ~inMemory)
            => (AbsentAfter(last'.key) /\ OthersSame(last'.key))
       /\ (last.op = "Delete" /\ last.err = ErrNil /\ ~inMemory /\ Absent(last.key)
             /\ ~(last'.op = "Set" /\ last'.key = last.key))
            => AbsentAfter(last.key)]_vars

C15_SetDiskEffect ==
    [][(last'.op = "Set" /\ last'.err = ErrNil /\ ~inMemory) =>
         LET f == getCacheFilename(last'.key) IN
         IF SaveToDiskOnSet
         THEN /\ dirExists' /\ f \in DOMAIN disk'
              /\ disk'[f] = serialize(last'.val).bytes
              /\ deserialize(disk'[f], last'.val.t).out = last'.val
         ELSE disk' = disk /\ dirExists' = dirExists]_vars

\* a Set made with SaveToDiskOnSet = false has left the older file of its key
\* as it was, holding another value
C15_Witness ==
    /\ last.op = "Set" /\ last.err = ErrNil /\ ~inMemory /\ ~SaveToDiskOnSet
    /\ getCacheFilename(last.key) \in DOMAIN disk
    /\ disk[getCacheFilename(last.key)] # serialize(last.val).bytes
    /\ last.key \in DOMAIN cache /\ cache[last.key] = last.val

\* every entry of the map has a file holding the encoding of its value
AllPersisted ==
    \A k \in DOMAIN cache :
        /\ getCacheFilename(k) \in DOMAIN disk
        /\ disk[getCacheFilename(k)] = serialize(cache[k]).bytes

\* C16: on a disk-backed cache with SaveToDiskOnSet = false, when SaveToDisk
\* returns success every entry of the map has a file holding the encoding of
\* its value, and SaveToDisk leaves the map as it was.
C16_SaveToDiskFlushes ==
    /\ []((last.op = "SaveToDisk" /\ last.err = ErrNil /\ ~inMemory
             /\ ~SaveToDiskOnSet) => AllPersisted)
    /\ [][last'.op = "SaveToDisk" => cache' = cache]_vars

\* SaveToDisk has written the files of two entries
C16_Witness ==
    /\ last.op = "SaveToDisk" /\ last.err = ErrNil /\ ~inMemory /\ ~SaveToDiskOnSet
    /\ DOMAIN cache = Keys /\ AllPersisted
    /\ \E k \in Keys : cache[k] = Value("string", "x")

\* the errors that report a fault of the file system
IOFaultErrors == {error_save_to_disk_failed, error_read_from_disk_failed,
                  error_delete_failed, error_read_files_failed}

\* C17 as stated: "whenever SaveToDiskOnSet is true on a disk-backed cache,
\* every entry of the map has a file holding its value" is kept by every call
\* that meets no fault of the file system and by every change of the flags.
C17_AlwaysPersisted ==
    [][(~inMemory /\ last'.err \notin IOFaultErrors
          /\ (SaveToDiskOnSet => AllPersisted) /\ SaveToDiskOnSet')
         => AllPersisted']_vars

\* the elements of a sequence
Elems(seq) == {seq[i] : i \in DOMAIN seq}

\* the keys that have a cache file
KeysOnDisk == {k \in Keys : getCacheFilename(k) \in DOMAIN disk}

C19_EnumerationCoversMemory ==
    [][(last.op = "Set" /\ last.err = ErrNil /\ last.key \in DOMAIN cache
          /\ last'.err = ErrNil)
         => /\ last'.op = "Keys" => last.key \in Elems(last'.keys)
            /\ last'.op = "Len" => last'.count >= 1]_vars

\* C20 as stated: a Get whose out argument is not a pointer returns the
\* ExpectedPointer error and changes neither the map nor the files.
C20_ExpectedPointer ==
    [][(last'.op = "Get" /\ last'.outT \in NonPointers)
         => (last'.err = error_expected_pointer
             /\ cache' = cache /\ disk' = disk /\ dirExists' = dirExists)]_vars

\* C21 as stated: a Get(k, &out) directly after a successful Set(k, v), out
\* of a type other than v's, returns an error (it neither panics nor succeeds)
\* and leaves the map as it was.
C21_WrongTypeIsError ==
    [][(last.op = "Set" /\ last.err = ErrNil /\ last'.op = "Get"
          /\ last'.key = last.key /\ last'.outT \in Types /\ last'.outT # last.val.t)
         => (last'.err \notin {ErrNil, ErrPanic} /\ cache' = cache)]_vars

\* the file of the key of the last call, and whether it decodes into the
\* type of the out argument of the last call
LastFile == getCacheFilename(last.key)
LastDecodes == deserialize(disk[LastFile], last.outT).ok

\* C24: on a disk-backed cache, a Get(k, &out) of a key that is not in the
\* map returns KeyNotFound exactly when k has no file; with a file, it returns
\* ReadFromDiskFailed when the read failed, else DeserializeFailed exactly when
\* the bytes do not decode into out's type, else success with the decoded
\* value.
C24_FallbackClassifies ==
    (last.op = "Get" /\ ~inMemory /\ last.src # "mem" /\ last.outT \in Types)
        => /\ last.err \in {error_key_not_found, error_read_from_disk_failed,
                            error_deserialize_failed, ErrNil}
           /\ (last.err = error_key_not_found) <=> (LastFile \notin DOMAIN disk)
           /\ (LastFile \in DOMAIN disk /\ last.err # error_read_from_disk_failed)
                => /\ (last.err = error_deserialize_failed) <=> ~LastDecodes
                   /\ (last.err = ErrNil) <=> LastDecodes
                   /\ LastDecodes => last.out = deserialize(disk[LastFile], last.outT).out

\* a Get has found the file of an int and could not decode it into a string
C24_Witness ==
    /\ last.op = "Get" /\ ~inMemory /\ last.src = "disk" /\ last.outT = "string"
    /\ last.err = error_deserialize_failed
    /\ disk[LastFile] = serialize(Value("int", "0")).bytes

\* C25 as stated: a Get that returns KeyNotFound, ReadFromDiskFailed,
\* DeserializeFailed or ExpectedPointer leaves the map and the files as they
\* were.
C25_FailedGetNoChange ==
    [][(last'.op = "Get"
          /\ last'.err \in {error_key_not_found, error_read_from_disk_failed,
                            error_deserialize_failed, error_expected_pointer})
         => (cache' = cache /\ disk' = disk)]_vars

\* C26 as stated: a Set that returns an error leaves the map as it was, and
\* within MaxMemItems if it was.
C26_FailedSetNoChange ==
    [][(last'.op = "Set" /\ last'.err # ErrNil)
         => /\ cache' = cache
            /\ (Finite /\ InMem <= MaxMemItems)
                 => Cardinality(DOMAIN cache') <= MaxMemItems]_vars

\* C27 as stated: on one instance, under every configuration, a successful
\* Get(k, &out) directly after a successful Set(k, v) yields v and no older
\* value.
C27_NoStaleRead ==
    [][(last.op = "Set" /\ last.err = ErrNil /\ last'.op = "Get"
          /\ last'.key = last.key /\ last'.err = ErrNil)
         => last'.out = last.val]_vars

\* C29 as stated: on a cache that holds nothing and has no file, its
\* directory not existing (or in-memory-only), Has returns false, Keys the
\* empty sequence and Len 0, each without error.
C29_EmptyCacheQueries ==
    (cache = EmptyMap /\ disk = EmptyMap /\ (inMemory \/ ~dirExists))
        => /\ last.op \in {"Has", "Keys", "Len"} => last.err = ErrNil
           /\ last.op = "Has" => ~last.found
           /\ last.op = "Keys" => last.keys = <<>>
           /\ last.op = "Len" => last.count = 0

\* C23: for every value v and every number n of pointer levels, what Set
\* hands to set for an n-level pointer to v is v itself, so that the call does
\* what Set(k, v) does; and a successful Set, given a pointer or not, has left
\* a value (no pointer) in the map and, when it persists, in the file.
C23_SetNormalises ==
    /\ \A v \in Values, n \in 0..MaxPtrDepth : Unwrap(Ptr(n, v)) = v
    /\ (last.op = "Set" /\ last.err = ErrNil /\ last.key \in DOMAIN cache)
          => (cache[last.key] \in Values /\ cache[last.key] = last.val)
    /\ (last.op = "Set" /\ last.err = ErrNil /\ Persisting)
          => /\ last.val \in Values
             /\ deserialize(disk[LastFile], last.val.t).out = last.val

\* a Set given a pointer of MaxPtrDepth levels to "x" has left "x" in the map
\* and its encoding in the file
C23_Witness ==
    /\ last.op = "Set" /\ last.err = ErrNil /\ last.depth = MaxPtrDepth
    /\ Persisting /\ last.key \in DOMAIN cache
    /\ cache[last.key] = Value("string", "x")
    /\ disk[LastFile] = serialize(Value("string", "x")).bytes

\* C22 as stated: of the predicates IsKeyNotFound, IsDeleteFailed, ... exactly
\* the one of the kind of an error returns true on it, whatever the key, the
\* cache name and the wrapped cause are.
C22_KindIdentifiable ==
    last.op = "Error" => \A kind \in ErrorKinds : IsKind(last.msg, kind) <=> (kind = last.err)

\* C28 as stated: an instance that has written nothing reports nothing of what
\* an instance of another name wrote in the same directory: Keys() is empty,
\* Len() is 0, Has(k) is false for a key not in the map and Get(k) reads no
\* file.
C28_NamespacesIsolated ==
    /\ (last.op = "Keys" /\ last.err = ErrNil) => last.keys = <<>>
    /\ (last.op = "Len" /\ last.err = ErrNil) => last.count = 0
    /\ (last.op = "Has" /\ last.key \notin DOMAIN cache) => ~last.found
    /\ last.op = "Get" => last.src # "disk"

====
